---- MODULE Spec2Model ----
(***************************************************************************)
(* CoveyTownController (src/src/lib/CoveyTownController.ts): the per-town  *)
(* controller that tracks players, sessions, conversation areas and the    *)
(* listeners that are told of every change.                                *)
(*                                                                         *)
(* Numbers: a bounding box is a centre and a full width/height, and the    *)
(* code halves the width and height (width / 2).  To stay in the integers  *)
(* every coordinate computed by getConversationAreaCoordinates is kept in  *)
(* half-units (twice the real value), and a player's coordinate is doubled *)
(* where it is compared with one.  The comparisons are therefore exactly   *)
(* those of the code.                                                      *)
(***************************************************************************)
EXTENDS Integers, Sequences, FiniteSets, TLC

\* ---------------------------------------------------------------- bounds
MaxOps == 7
MaxPlayers == 2
MaxCoord == 1
MaxY == 0
MaxSize == 2
MaxAreas == 2
MaxListeners == 2

Players == 1..MaxPlayers
ListenerIds == 1..MaxListeners
Coords == 0..MaxCoord
YCoords == 0..MaxY
Sizes == 1..MaxSize
Labels == {"A", "B"}
Topics == {"", "t"}

\* `undefined` as a conversation label / an active conversation area
NoLabel == "none"
\* `undefined` as the result of Array.find
NotFound == [sessionToken |-> 0, player |-> 0, videoToken |-> 0]
\* the value of a session's videoToken before it is assigned
NoToken == 0

\* the boxes the candidates of the town are drawn from (squares), and the
\* locations a player reports
BoundingBoxes ==
    {[x |-> x, y |-> y, width |-> s, height |-> s] : x \in Coords, y \in YCoords, s \in Sizes}
UserLocations == [x : Coords, y : YCoords, conversationLabel : Labels \cup {NoLabel}]

\* occupantsByID lists a caller may pass in on a candidate area
PassedOccupants == {<<>>, <<1>>}

VARIABLES
    players,                \* _players: ids of the Player objects in the list
    sessions,               \* _sessions: the PlayerSession objects
    conversationAreas,      \* _conversationAreas
    listeners,              \* _listeners, in registration order
    location,               \* player.location of every Player object
    activeConversationArea, \* player's active conversation area (by label)
    pc,                     \* where each Player object's addPlayer call is
    log,                    \* listener calls made by the last operation
    last,                   \* the last operation and what it returned
    ops                     \* how many operations and continuations have run

vars == <<players, sessions, conversationAreas, listeners, location,
          activeConversationArea, pc, log, last, ops>>

\* ------------------------------------------------------- array primitives
Min(a, b) == IF a < b THEN a ELSE b
Max(a, b) == IF a > b THEN a ELSE b

\* Array.prototype.indexOf: 0-based index of the first match, -1 if none
IndexOf(s, v) ==
    IF \E i \in 1..Len(s) : s[i] = v
    THEN (CHOOSE i \in 1..Len(s) : s[i] = v /\ \A j \in 1..(i - 1) : s[j] # v) - 1
    ELSE -1

\* Array.prototype.splice(index, 1): a negative index counts from the end
Splice1(s, index) ==
    LET start == IF index < 0 THEN Max(Len(s) + index, 0) ELSE Min(index, Len(s))
    IN  IF start < Len(s)
        THEN SubSeq(s, 1, start) \o SubSeq(s, start + 2, Len(s))
        ELSE s

\* listeners.forEach(listener => listener.on<kind>(subject))
Notify(ls, kind, subject) ==
    [i \in 1..Len(ls) |-> [to |-> ls[i], kind |-> kind, subject |-> subject]]

\* f is a sequence of sequences: f[1] \o f[2] \o ... \o f[n]
RECURSIVE ConcatTo(_, _)
ConcatTo(f, n) == IF n = 0 THEN <<>> ELSE ConcatTo(f, n - 1) \o f[n]

\* --------------------------------------------------------------- geometry
\* coords[k] of the code is At(coords, k): the code's arrays are 0-based
At(coords, k) == coords[k + 1]

\* In half-units: heightDiff = height / 2 becomes height, and x becomes 2 * x.
getConversationAreaCoordinates(boudingBox) ==
    LET heightDiff == boudingBox.height
        widthDiff == boudingBox.width
        xBotLeft == 2 * boudingBox.x - widthDiff
        yBotLeft == 2 * boudingBox.y - heightDiff
        xTopRight == 2 * boudingBox.x + widthDiff
        yTopRight == 2 * boudingBox.y + heightDiff
        xTopLeft == 2 * boudingBox.x - widthDiff
        yTopLeft == 2 * boudingBox.y + heightDiff
        xBotRight == 2 * boudingBox.x + widthDiff
        yBotRight == 2 * boudingBox.y - heightDiff
    IN  <<xBotLeft, yBotLeft, xTopRight, yTopRight,
          xTopLeft, yTopLeft, xBotRight, yBotRight>>

\* boxesOverlap with the left edges compared with each other (a wrong index)
boxesOverlapWrongIndex(mainCoordinates, newCoordinates) ==
    ~(\/ At(mainCoordinates, 0) >= At(newCoordinates, 0)
      \/ At(mainCoordinates, 2) <= At(newCoordinates, 0)
      \/ At(mainCoordinates, 3) <= At(newCoordinates, 1)
      \/ At(mainCoordinates, 1) >= At(newCoordinates, 3))

\* boxesOverlap with strict comparisons: boxes that touch count as overlapping
boxesOverlapStrict(mainCoordinates, newCoordinates) ==
    ~(\/ At(mainCoordinates, 0) > At(newCoordinates, 2)
      \/ At(mainCoordinates, 2) < At(newCoordinates, 0)
      \/ At(mainCoordinates, 3) < At(newCoordinates, 1)
      \/ At(mainCoordinates, 1) > At(newCoordinates, 3))

\* the test of the loop body of conversationOverlaps, for one existing area
boxesOverlap(mainCoordinates, newCoordinates) ==
    ~(\/ At(mainCoordinates, 0) >= At(newCoordinates, 2)
      \/ At(mainCoordinates, 2) <= At(newCoordinates, 0)
      \/ At(mainCoordinates, 3) <= At(newCoordinates, 1)
      \/ At(mainCoordinates, 1) >= At(newCoordinates, 3))

conversationOverlaps(mainCoordinates) ==
    \E i \in 1..Len(conversationAreas) :
        boxesOverlap(mainCoordinates,
                     getConversationAreaCoordinates(conversationAreas[i].boundingBox))

\* player.location against coordinates in half-units
isPlayerInConversationArea(loc, conversationAreaCoordinates) ==
    /\ 2 * loc.x > At(conversationAreaCoordinates, 4)
    /\ 2 * loc.x < At(conversationAreaCoordinates, 6)
    /\ 2 * loc.y < At(conversationAreaCoordinates, 5)
    /\ 2 * loc.y > At(conversationAreaCoordinates, 7)

\* the record kept of the last operation: its name and what it returned
Last(op, ret) == [op |-> op, ret |-> ret]

\* ------------------------------------------------------------------- Init
Init ==
    /\ players = <<>>
    /\ sessions = <<>>
    /\ conversationAreas = <<>>
    /\ listeners = <<>>
    /\ location = [p \in Players |-> [x |-> 0, y |-> 0, conversationLabel |-> NoLabel]]
    /\ activeConversationArea = [p \in Players |-> NoLabel]
    /\ pc = [p \in Players |-> "new"]
    /\ log = <<>>
    /\ last = Last("constructor", "void")
    /\ ops = 0

\* one more operation (or continuation of addPlayer) runs, within the budget
Served == ops < MaxOps /\ ops' = ops + 1

\* ------------------------------------------------------ addPlayer (async)
\* up to the await: the session and the player are pushed
addPlayerCall(newPlayer) ==
    /\ Served
    /\ pc[newPlayer] = "new"
    /\ sessions' = Append(sessions, [sessionToken |-> newPlayer, player |-> newPlayer,
                                     videoToken |-> NoToken])
    /\ players' = Append(players, newPlayer)
    /\ pc' = [pc EXCEPT ![newPlayer] = "awaiting"]
    /\ log' = <<>>
    /\ last' = Last("addPlayer", "pending")
    /\ UNCHANGED <<conversationAreas, listeners, location, activeConversationArea>>

\* getTokenForTown resolved: the token is stored, the listeners are told
addPlayerResolved(newPlayer) ==
    /\ Served
    /\ pc[newPlayer] = "awaiting"
    /\ sessions' = [i \in 1..Len(sessions) |->
                      IF sessions[i].sessionToken = newPlayer
                      THEN [sessions[i] EXCEPT !.videoToken = newPlayer]
                      ELSE sessions[i]]
    /\ log' = Notify(listeners, "playerJoined", newPlayer)
    /\ pc' = [pc EXCEPT ![newPlayer] = "joined"]
    /\ last' = Last("addPlayer", "session")
    /\ UNCHANGED <<players, conversationAreas, listeners, location, activeConversationArea>>

\* getTokenForTown rejected: the exception leaves addPlayer at the await
addPlayerRejected(newPlayer) ==
    /\ Served
    /\ pc[newPlayer] = "awaiting"
    /\ pc' = [pc EXCEPT ![newPlayer] = "rejected"]
    /\ log' = <<>>
    /\ last' = Last("addPlayer", "throws")
    /\ UNCHANGED <<players, sessions, conversationAreas, listeners, location,
                   activeConversationArea>>

\* ----------------------------------------------------------- getSessionByToken
getSessionByToken(token) ==
    IF \E i \in 1..Len(sessions) : sessions[i].sessionToken = token
    THEN sessions[CHOOSE i \in 1..Len(sessions) :
                    /\ sessions[i].sessionToken = token
                    /\ \A j \in 1..(i - 1) : sessions[j].sessionToken # token]
    ELSE NotFound

\* --------------------------------------------------------- destroySession
\* the forEach callback's effect on one area
destroySessionArea(conversationArea, player) ==
    IF conversationArea.label = location[player].conversationLabel
    THEN [conversationArea EXCEPT
            !.occupantsByID = Splice1(@, IndexOf(@, player))]
    ELSE conversationArea

\* this._conversationAreas.slice(convoIndex, 1) returns a copy that is dropped
destroySessionAreas(player) ==
    [i \in 1..Len(conversationAreas) |-> destroySessionArea(conversationAreas[i], player)]

\* the listener calls of the forEach callback for one area
destroySessionAreaLog(before, after, player) ==
    IF before.label = location[player].conversationLabel
    THEN Notify(listeners, "conversationAreaUpdated", before.label)
         \o (IF Len(after.occupantsByID) = 0
             THEN Notify(listeners, "conversationAreaDestroyed", before.label)
             ELSE <<>>)
    ELSE <<>>

\* destroySessionRun that leaves the session in the list
destroySessionRunKeepsSession(player) ==
    /\ Served
    /\ players' = SelectSeq(players, LAMBDA p : p # player)
    /\ sessions' = sessions
    /\ conversationAreas' = destroySessionAreas(player)
    /\ log' = ConcatTo([i \in 1..Len(conversationAreas) |->
                           destroySessionAreaLog(conversationAreas[i],
                                                 destroySessionAreas(player)[i], player)],
                       Len(conversationAreas))
               \o Notify(listeners, "playerDisconnected", player)
    /\ pc' = [pc EXCEPT ![player] = "destroyed"]
    /\ last' = Last("destroySession", "void")
    /\ UNCHANGED <<listeners, location, activeConversationArea>>

\* the body of destroySession, whoever the session belongs to
destroySessionRun(player) ==
    /\ Served
    /\ players' = SelectSeq(players, LAMBDA p : p # player)
    /\ sessions' = SelectSeq(sessions, LAMBDA s : s.sessionToken # player)
    /\ conversationAreas' = destroySessionAreas(player)
    /\ log' = ConcatTo([i \in 1..Len(conversationAreas) |->
                           destroySessionAreaLog(conversationAreas[i],
                                                 destroySessionAreas(player)[i], player)],
                       Len(conversationAreas))
               \o Notify(listeners, "playerDisconnected", player)
    /\ pc' = [pc EXCEPT ![player] = "destroyed"]
    /\ last' = Last("destroySession", "void")
    /\ UNCHANGED <<listeners, location, activeConversationArea>>

\* destroySession with the session addPlayer returned
destroySession(player) ==
    /\ pc[player] = "joined"
    /\ destroySessionRun(player)

\* destroySession called once more with a session that is already destroyed
destroySessionAgain(player) ==
    /\ pc[player] = "destroyed"
    /\ destroySessionRun(player)

\* --------------------------------------------------- updatePlayerLocation
\* the first forEach if it also dropped the area it has emptied
leavePreviousDropEmpty(areas, player) ==
    SelectSeq([i \in 1..Len(areas) |->
                  IF areas[i].label = location[player].conversationLabel
                  THEN [areas[i] EXCEPT !.occupantsByID = Splice1(@, IndexOf(@, player))]
                  ELSE areas[i]],
              LAMBDA a : ~(/\ a.label = location[player].conversationLabel
                           /\ a.occupantsByID = <<>>))

\* first forEach: remove the player's id from the previous area
leavePrevious(areas, player) ==
    [i \in 1..Len(areas) |->
        IF areas[i].label = location[player].conversationLabel
        THEN [areas[i] EXCEPT !.occupantsByID = Splice1(@, IndexOf(@, player))]
        ELSE areas[i]]

\* second forEach: add the player's id to the new area
enterNew(areas, player, newLocation) ==
    [i \in 1..Len(areas) |->
        IF areas[i].label = newLocation.conversationLabel
        THEN [areas[i] EXCEPT !.occupantsByID = Append(@, player)]
        ELSE areas[i]]

\* the listener calls of a forEach that matches areas by label
updatedLog(areas, label) ==
    ConcatTo([i \in 1..Len(areas) |->
                 IF areas[i].label = label
                 THEN Notify(listeners, "conversationAreaUpdated", areas[i].label)
                 ELSE <<>>],
             Len(areas))

hasLabel(areas, label) == \E i \in 1..Len(areas) : areas[i].label = label

\* updatePlayerLocationLog with the move reported before the area updates
updatePlayerLocationLogMoveFirst(player, newLocation) ==
    IF location[player].conversationLabel # newLocation.conversationLabel
    THEN Notify(listeners, "playerMoved", player)
         \o updatedLog(conversationAreas, location[player].conversationLabel)
         \o updatedLog(conversationAreas, newLocation.conversationLabel)
    ELSE Notify(listeners, "playerMoved", player)

\* updatePlayerLocationLog without the comparison of the two labels
updatePlayerLocationLogAlways(player, newLocation) ==
    updatedLog(conversationAreas, location[player].conversationLabel)
    \o updatedLog(conversationAreas, newLocation.conversationLabel)
    \o Notify(listeners, "playerMoved", player)

\* the listener calls of updatePlayerLocation, in the order they are made
updatePlayerLocationLog(player, newLocation) ==
    IF location[player].conversationLabel # newLocation.conversationLabel
    THEN updatedLog(conversationAreas, location[player].conversationLabel)
         \o updatedLog(conversationAreas, newLocation.conversationLabel)
         \o Notify(listeners, "playerMoved", player)
    ELSE Notify(listeners, "playerMoved", player)

updatePlayerLocation(player, newLocation) ==
    /\ Served
    /\ pc[player] = "joined"
    /\ IF location[player].conversationLabel # newLocation.conversationLabel
       THEN /\ conversationAreas' =
                  enterNew(leavePrevious(conversationAreas, player), player, newLocation)
            /\ activeConversationArea' =
                  [activeConversationArea EXCEPT ![player] =
                      IF hasLabel(conversationAreas, newLocation.conversationLabel)
                      THEN newLocation.conversationLabel
                      ELSE IF hasLabel(conversationAreas, location[player].conversationLabel)
                           THEN NoLabel
                           ELSE @]
       ELSE UNCHANGED <<conversationAreas, activeConversationArea>>
    /\ location' = [location EXCEPT ![player] = newLocation]
    /\ log' = updatePlayerLocationLog(player, newLocation)
    /\ last' = Last("updatePlayerLocation", "void")
    /\ UNCHANGED <<players, sessions, listeners, pc>>

\* ---------------------------------------------------- addConversationArea
Candidates ==
    [label : Labels, topic : Topics, boundingBox : BoundingBoxes,
     occupantsByID : PassedOccupants]

\* the label loop of addConversationArea
conversationAreaLabelExists(_conversationArea) ==
    \E i \in 1..Len(conversationAreas) :
        conversationAreas[i].label = _conversationArea.label

\* rejects without the label loop
rejectsTopicOrOverlap(_conversationArea) ==
    \/ _conversationArea.topic = ""
    \/ conversationOverlaps(getConversationAreaCoordinates(_conversationArea.boundingBox))

\* rejects without the topic check
rejectsLabelOrOverlap(_conversationArea) ==
    \/ conversationAreaLabelExists(_conversationArea)
    \/ conversationOverlaps(getConversationAreaCoordinates(_conversationArea.boundingBox))

\* the three early returns, in the order of the code
rejects(_conversationArea) ==
    \/ _conversationArea.topic = ""
    \/ conversationAreaLabelExists(_conversationArea)
    \/ conversationOverlaps(getConversationAreaCoordinates(_conversationArea.boundingBox))

\* this._players.forEach: the players found in the area, in list order
playersInConversationArea(conversationAreaCoordinates) ==
    SelectSeq(players,
              LAMBDA p : isPlayerInConversationArea(location[p], conversationAreaCoordinates))

\* the ids are pushed onto the occupantsByID the candidate came with
populated(_conversationArea) ==
    [_conversationArea EXCEPT
        !.occupantsByID =
            @ \o playersInConversationArea(
                     getConversationAreaCoordinates(_conversationArea.boundingBox))]

addConversationArea(_conversationArea) ==
    /\ Served
    /\ last' = Last("addConversationArea", IF rejects(_conversationArea) THEN "false" ELSE "true")
    /\ IF rejects(_conversationArea)
       THEN /\ log' = <<>>
            /\ UNCHANGED <<conversationAreas, activeConversationArea>>
       ELSE /\ Len(conversationAreas) < MaxAreas
            /\ activeConversationArea' =
                  [p \in Players |->
                      IF /\ \E i \in 1..Len(players) : players[i] = p
                         /\ isPlayerInConversationArea(
                                location[p],
                                getConversationAreaCoordinates(_conversationArea.boundingBox))
                      THEN _conversationArea.label
                      ELSE activeConversationArea[p]]
            /\ log' = Notify(listeners, "conversationAreaUpdated", _conversationArea.label)
            /\ conversationAreas' = Append(conversationAreas, populated(_conversationArea))
    /\ UNCHANGED <<players, sessions, listeners, location, pc>>

\* ------------------------------------------------------------- listeners
\* a listener object is made for one connection and subscribed once
addTownListener(listener) ==
    /\ Served
    /\ \A i \in 1..Len(listeners) : listeners[i] # listener
    /\ listeners' = Append(listeners, listener)
    /\ log' = <<>>
    /\ last' = Last("addTownListener", "void")
    /\ UNCHANGED <<players, sessions, conversationAreas, location,
                   activeConversationArea, pc>>

removeTownListener(listener) ==
    /\ Served
    /\ listeners' = SelectSeq(listeners, LAMBDA v : v # listener)
    /\ log' = <<>>
    /\ last' = Last("removeTownListener", "void")
    /\ UNCHANGED <<players, sessions, conversationAreas, location,
                   activeConversationArea, pc>>

\* ---------------------------------------------------------- specification
Next ==
    \/ \E p \in Players : addPlayerCall(p)
    \/ \E p \in Players : addPlayerResolved(p)
    \/ \E p \in Players : addPlayerRejected(p)
    \/ \E p \in Players : destroySession(p)
    \/ \E p \in Players : \E l \in UserLocations : updatePlayerLocation(p, l)
    \/ \E c \in Candidates : addConversationArea(c)
    \/ \E l \in ListenerIds : addTownListener(l)
    \/ \E l \in ListenerIds : removeTownListener(l)

Spec == Init /\ [][Next]_vars

\* ------------------------------------- a session that is destroyed twice
NextAgain ==
    \/ \E p \in Players : addPlayerCall(p)
    \/ \E p \in Players : addPlayerResolved(p)
    \/ \E p \in Players : addPlayerRejected(p)
    \/ \E p \in Players : destroySession(p)
    \/ \E p \in Players : destroySessionAgain(p)
    \/ \E p \in Players : \E l \in UserLocations : updatePlayerLocation(p, l)
    \/ \E c \in Candidates : addConversationArea(c)
    \/ \E l \in ListenerIds : addTownListener(l)
    \/ \E l \in ListenerIds : removeTownListener(l)

SpecAgain == Init /\ [][NextAgain]_vars

\* ------------------------------------------------ a listener that throws
\* No forEach over the listeners has a try/catch: an exception thrown by a
\* listener ends the forEach and the operation where it stands.

\* addPlayer after the await, when the k-th listener throws in onPlayerJoined
addPlayerResolvedThrows(newPlayer, k) ==
    /\ Served
    /\ pc[newPlayer] = "awaiting"
    /\ k \in 1..Len(listeners)
    /\ sessions' = [i \in 1..Len(sessions) |->
                      IF sessions[i].sessionToken = newPlayer
                      THEN [sessions[i] EXCEPT !.videoToken = newPlayer]
                      ELSE sessions[i]]
    /\ log' = SubSeq(Notify(listeners, "playerJoined", newPlayer), 1, k)
    /\ pc' = [pc EXCEPT ![newPlayer] = "rejected"]
    /\ last' = Last("addPlayer", "throws")
    /\ UNCHANGED <<players, conversationAreas, listeners, location, activeConversationArea>>

\* updatePlayerLocation when its k-th listener call throws: what was done
\* before that call stays done, what comes after it is not run
updatePlayerLocationThrows(player, newLocation, k) ==
    LET changed == location[player].conversationLabel # newLocation.conversationLabel
        n1 == IF changed
              THEN Len(updatedLog(conversationAreas, location[player].conversationLabel))
              ELSE 0
        n2 == IF changed
              THEN Len(updatedLog(conversationAreas, newLocation.conversationLabel))
              ELSE 0
    IN  /\ Served
        /\ pc[player] = "joined"
        /\ k \in 1..Len(updatePlayerLocationLog(player, newLocation))
        /\ conversationAreas' =
              IF ~changed THEN conversationAreas
              ELSE IF k <= n1 THEN leavePrevious(conversationAreas, player)
              ELSE enterNew(leavePrevious(conversationAreas, player), player, newLocation)
        /\ activeConversationArea' =
              [activeConversationArea EXCEPT ![player] =
                  IF changed /\ k > n1 /\ n2 > 0 THEN newLocation.conversationLabel
                  ELSE IF changed /\ n1 > 0 THEN NoLabel
                  ELSE @]
        /\ location' = IF k > n1 + n2
                       THEN [location EXCEPT ![player] = newLocation]
                       ELSE location
        /\ log' = SubSeq(updatePlayerLocationLog(player, newLocation), 1, k)
        /\ last' = Last("updatePlayerLocation", "throws")
        /\ UNCHANGED <<players, sessions, listeners, pc>>

NextThrow ==
    \/ \E p \in Players : addPlayerCall(p)
    \/ \E p \in Players : addPlayerResolved(p)
    \/ \E p \in Players : addPlayerRejected(p)
    \/ \E p \in Players : \E k \in 1..MaxListeners : addPlayerResolvedThrows(p, k)
    \/ \E p \in Players : destroySession(p)
    \/ \E p \in Players : \E l \in UserLocations : updatePlayerLocation(p, l)
    \/ \E p \in Players : \E l \in UserLocations : \E k \in 1..(3 * MaxListeners) :
          updatePlayerLocationThrows(p, l, k)
    \/ \E c \in Candidates : addConversationArea(c)
    \/ \E l \in ListenerIds : addTownListener(l)
    \/ \E l \in ListenerIds : removeTownListener(l)

SpecThrow == Init /\ [][NextThrow]_vars

\* ------------------------------------------- the geometry of two areas
\* A town that holds one area, of any rectangle of a wider range, and is asked
\* for a second one: every ordered pair of rectangles meets the overlap test.
GeoMaxCoord == 2
GeoMaxSize == 2
GeoBoxes == [x : 0..GeoMaxCoord, y : 0..GeoMaxCoord, width : 1..GeoMaxSize,
             height : 1..GeoMaxSize]
GeoCandidates == [label : {"B"}, topic : {"t"}, boundingBox : GeoBoxes,
                  occupantsByID : {<<>>}]

\* the town after addConversationArea has accepted a first area, "A"
InitGeo ==
    /\ players = <<>>
    /\ sessions = <<>>
    /\ \E b \in GeoBoxes :
          conversationAreas = <<[label |-> "A", topic |-> "t", boundingBox |-> b,
                                 occupantsByID |-> <<>>]>>
    /\ listeners = <<>>
    /\ location = [p \in Players |-> [x |-> 0, y |-> 0, conversationLabel |-> NoLabel]]
    /\ activeConversationArea = [p \in Players |-> NoLabel]
    /\ pc = [p \in Players |-> "new"]
    /\ log = <<>>
    /\ last = Last("addConversationArea", "true")
    /\ ops = 1

NextGeo == \E c \in GeoCandidates : addConversationArea(c)

SpecGeo == InitGeo /\ [][NextGeo]_vars

\* ================================================================= claims
\* helpers of the claims
Range(s) == {s[i] : i \in 1..Len(s)}
Count(s, v) == Cardinality({i \in 1..Len(s) : s[i] = v})
Area(areas, label) == areas[CHOOSE i \in 1..Len(areas) : areas[i].label = label]

\* C1: once the provisioning call of addPlayer(p) has failed, p is not in the
\* player list and p's session is not in the session list.
C1_FailedAddLeavesNoTrace ==
    \A p \in Players :
        pc[p] = "rejected" =>
            /\ p \notin Range(players)
            /\ \A i \in 1..Len(sessions) : sessions[i].player # p

\* C2: while addPlayer(p) waits for provisioning, p is not in the player list,
\* getSessionByToken does not find p's session, and an addConversationArea run
\* in that window adds p's id to the new area no more often than the caller
\* passed it in.
C2_PendingInvisible ==
    [][\A p \in Players :
          (pc[p] = "awaiting" /\ pc'[p] = "awaiting") =>
              /\ p \notin Range(players')
              /\ getSessionByToken(p)' = NotFound
              /\ \A c \in Candidates :
                    (addConversationArea(c) /\ last'.ret = "true") =>
                        Count(conversationAreas'[Len(conversationAreas')].occupantsByID, p)
                            = Count(c.occupantsByID, p)]_vars

\* C3: when destroySession removes the player who is the only occupant of the
\* area its location names, no area with that label is in the list afterwards.
C3_LastOccupantLeavesAreaRemoved ==
    [][\A p \in Players :
          (pc[p] = "joined" /\ pc'[p] = "destroyed") =>
              \A i \in 1..Len(conversationAreas) :
                  (/\ conversationAreas[i].label = location[p].conversationLabel
                   /\ conversationAreas[i].occupantsByID = <<p>>)
                  => ~hasLabel(conversationAreas', conversationAreas[i].label)]_vars

\* the geometry of the design (section 4.1), in half-units like the model
BoundsOf(rect) ==
    [xMin |-> 2 * rect.x - rect.width, xMax |-> 2 * rect.x + rect.width,
     yMin |-> 2 * rect.y - rect.height, yMax |-> 2 * rect.y + rect.height]
Overlaps(a, b) ==
    ~(\/ BoundsOf(a).xMin >= BoundsOf(b).xMax
      \/ BoundsOf(a).xMax <= BoundsOf(b).xMin
      \/ BoundsOf(a).yMax <= BoundsOf(b).yMin
      \/ BoundsOf(a).yMin >= BoundsOf(b).yMax)
\* the point is strictly inside the rectangle
Contains(rect, point) ==
    /\ BoundsOf(rect).xMin < 2 * point.x /\ 2 * point.x < BoundsOf(rect).xMax
    /\ BoundsOf(rect).yMin < 2 * point.y /\ 2 * point.y < BoundsOf(rect).yMax

\* C4: no two conversation areas of the list have overlapping regions.
C4_AreasNeverOverlap ==
    \A i, j \in 1..Len(conversationAreas) :
        i # j => ~Overlaps(conversationAreas[i].boundingBox, conversationAreas[j].boundingBox)

\* two areas are in the list, flush against each other
C4_Witness ==
    /\ Len(conversationAreas) = 2
    /\ BoundsOf(conversationAreas[1].boundingBox).xMax
         = BoundsOf(conversationAreas[2].boundingBox).xMin

\* C5: no player id appears more than once in the occupants of an area.
C5_OccupantsDuplicateFree ==
    \A i \in 1..Len(conversationAreas) :
        \A p \in Players : Count(conversationAreas[i].occupantsByID, p) <= 1

\* C6: an accepted candidate enters the list with exactly the ids of the
\* players strictly inside its rectangle as occupants, whatever was passed in,
\* and each of those players has the new area as its active area.
C6_AcceptedAreaHoldsPlayersInside ==
    [][\A c \in Candidates :
          (addConversationArea(c) /\ last'.ret = "true") =>
              LET added == conversationAreas'[Len(conversationAreas')]
                  inside == {p \in Range(players) : Contains(c.boundingBox, location[p])}
              IN  /\ Range(added.occupantsByID) = inside
                  /\ \A p \in inside : activeConversationArea'[p] = c.label]_vars

\* C7: a call is answered true only for a candidate with a non-empty topic, a
\* label not in use and a region that overlaps no area of the list (so every
\* other candidate is answered false); and a call answered false makes no
\* listener call and changes nothing of the town.
C7_RejectionChangesNothing ==
    [][/\ (last'.op = "addConversationArea" /\ last'.ret = "true") =>
             /\ Len(conversationAreas') = Len(conversationAreas) + 1
             /\ LET added == conversationAreas'[Len(conversationAreas')]
                IN  /\ added.topic # ""
                    /\ ~hasLabel(conversationAreas, added.label)
                    /\ \A i \in 1..Len(conversationAreas) :
                          ~Overlaps(added.boundingBox, conversationAreas[i].boundingBox)
       /\ (last'.op = "addConversationArea" /\ last'.ret = "false") =>
             /\ log' = <<>>
             /\ UNCHANGED <<players, sessions, conversationAreas, listeners, location,
                            activeConversationArea, pc>>]_vars

\* a candidate was refused by a town that has an area, a player and a listener
C7_Witness ==
    /\ last = Last("addConversationArea", "false")
    /\ Len(conversationAreas) > 0
    /\ Len(listeners) > 0
    /\ Len(players) > 0

\* the two rectangles share a region of positive width and height
InteriorsMeet(a, b) ==
    /\ Max(BoundsOf(a).xMin, BoundsOf(b).xMin) < Min(BoundsOf(a).xMax, BoundsOf(b).xMax)
    /\ Max(BoundsOf(a).yMin, BoundsOf(b).yMin) < Min(BoundsOf(a).yMax, BoundsOf(b).yMax)

\* C8: a candidate with a topic and an unused label is answered true exactly
\* when its rectangle shares no region of positive width and height with the
\* rectangle of an area of the list, whichever of the two is the candidate.
C8_AcceptedIffInteriorsDisjoint ==
    [][\A c \in GeoCandidates :
          (/\ addConversationArea(c)
           /\ c.topic # ""
           /\ ~hasLabel(conversationAreas, c.label))
          => (last'.ret = "true"
                <=> \A i \in 1..Len(conversationAreas) :
                       ~InteriorsMeet(c.boundingBox, conversationAreas[i].boundingBox))]_vars

\* the second area was accepted flush against the first: they share the edge
\* x = xMax of the first over a stretch of positive height
C8_Witness ==
    /\ Len(conversationAreas) = 2
    /\ last = Last("addConversationArea", "true")
    /\ BoundsOf(conversationAreas[1].boundingBox).xMax
         = BoundsOf(conversationAreas[2].boundingBox).xMin
    /\ Max(BoundsOf(conversationAreas[1].boundingBox).yMin,
           BoundsOf(conversationAreas[2].boundingBox).yMin)
         < Min(BoundsOf(conversationAreas[1].boundingBox).yMax,
               BoundsOf(conversationAreas[2].boundingBox).yMax)

\* what listener l was told by the last operation, in order
Received(l) == SelectSeq(log, LAMBDA e : e.to = l)
Told(l, kind, subject) == [to |-> l, kind |-> kind, subject |-> subject]

\* C9: when updatePlayerLocation changes a player's conversation label, every
\* listener is told, in this order: the old area updated (if the old label
\* names an area), the new area updated (if the new label names an area), the
\* player moved; and nothing else.
C9_UpdatesBeforeMove ==
    [][\A p \in Players :
          (/\ last'.op = "updatePlayerLocation"
           /\ location[p].conversationLabel # location'[p].conversationLabel)
          => \A l \in Range(listeners) :
                Received(l)' =
                    (IF hasLabel(conversationAreas, location[p].conversationLabel)
                     THEN <<Told(l, "conversationAreaUpdated", location[p].conversationLabel)>>
                     ELSE <<>>)
                    \o (IF hasLabel(conversationAreas, location'[p].conversationLabel)
                        THEN <<Told(l, "conversationAreaUpdated",
                                    location'[p].conversationLabel)>>
                        ELSE <<>>)
                    \o <<Told(l, "playerMoved", p)>>]_vars

\* a listener was told of the old area, then the new area, then the move
C9_Witness ==
    /\ last.op = "updatePlayerLocation"
    /\ \E l \in ListenerIds : \E p \in Players :
          Received(l) = <<Told(l, "conversationAreaUpdated", "A"),
                          Told(l, "conversationAreaUpdated", "B"),
                          Told(l, "playerMoved", p)>>

\* C10: when updatePlayerLocation moves a player off the label of an area it
\* occupies, one entry of the player's id leaves the area's occupants; and if
\* the player was the only occupant the area leaves the list and every
\* listener is told the area was destroyed.
C10_MoveOutEmptiesAndDestroys ==
    [][\A p \in Players :
          (/\ last'.op = "updatePlayerLocation"
           /\ location[p].conversationLabel # location'[p].conversationLabel)
          => \A i \in 1..Len(conversationAreas) :
                (/\ conversationAreas[i].label = location[p].conversationLabel
                 /\ p \in Range(conversationAreas[i].occupantsByID))
                => /\ hasLabel(conversationAreas', conversationAreas[i].label) =>
                        Count(Area(conversationAreas', conversationAreas[i].label).occupantsByID, p)
                            = Count(conversationAreas[i].occupantsByID, p) - 1
                   /\ conversationAreas[i].occupantsByID = <<p>> =>
                        /\ ~hasLabel(conversationAreas', conversationAreas[i].label)
                        /\ \A l \in Range(listeners) :
                              Told(l, "conversationAreaDestroyed", conversationAreas[i].label)
                                  \in Range(log')]_vars


\* C11: an updatePlayerLocation that leaves the player's conversation label as
\* it is tells every listener once that the player moved and tells nothing
\* else; the area list, the occupants and everything but that player's
\* location stay as they are.
C11_SameLabelOnlyMoves ==
    [][(/\ last'.op = "updatePlayerLocation"
        /\ \A q \in Players :
              location'[q].conversationLabel = location[q].conversationLabel)
       => /\ UNCHANGED <<players, sessions, conversationAreas, listeners,
                         activeConversationArea, pc>>
          /\ \E p \in Players :
                /\ pc[p] = "joined"
                /\ \A q \in Players \ {p} : location'[q] = location[q]
                /\ Len(log') = Len(listeners)
                /\ \A l \in Range(listeners) :
                      Received(l)' = <<Told(l, "playerMoved", p)>>]_vars

\* a player whose label names an area it occupies has moved within the label:
\* the listeners were told of the move alone
C11_Witness ==
    /\ last.op = "updatePlayerLocation"
    /\ Len(listeners) > 0
    /\ \E p \in Players :
          /\ hasLabel(conversationAreas, location[p].conversationLabel)
          /\ p \in Range(Area(conversationAreas, location[p].conversationLabel).occupantsByID)
          /\ location[p].x # 0
          /\ \A l \in Range(listeners) : Received(l) = <<Told(l, "playerMoved", p)>>


\* what destroySession of player p owes a listener, by the occupants before the
\* call: for each area p occupies, in list order, the area updated and, if p
\* was its only occupant, the area destroyed
RECURSIVE OwedForAreas(_, _, _, _)
OwedForAreas(areas, n, p, l) ==
    IF n = 0 THEN <<>>
    ELSE OwedForAreas(areas, n - 1, p, l)
         \o (IF p \in Range(areas[n].occupantsByID)
             THEN <<Told(l, "conversationAreaUpdated", areas[n].label)>>
                  \o (IF Range(areas[n].occupantsByID) = {p}
                      THEN <<Told(l, "conversationAreaDestroyed", areas[n].label)>>
                      ELSE <<>>)
             ELSE <<>>)

\* C12: destroySession tells every listener that the player disconnected, after
\* the update (and the destruction, if it became empty) of each area the
\* player occupied; a player that occupied no area causes no area notification.
C12_DisconnectAlwaysToldAreasFirst ==
    [][\A p \in Players :
          (pc[p] = "joined" /\ pc'[p] = "destroyed") =>
              \A l \in Range(listeners) :
                  Received(l)' =
                      OwedForAreas(conversationAreas, Len(conversationAreas), p, l)
                      \o <<Told(l, "playerDisconnected", p)>>]_vars


\* C13: a destroySession with a session that is already destroyed leaves the
\* player list, the session list, the area list and every area's occupants as
\* they were.
C13_SecondDestroyChangesNothing ==
    [][(last'.op = "destroySession" /\ pc' = pc)
       => UNCHANGED <<players, sessions, conversationAreas>>]_vars


\* C14: when a listener throws while it is told of an event, every subscribed
\* listener is still told of that event and the operation completes: an
\* updatePlayerLocation changes the location and tells every listener of the
\* move, an addPlayer returns the session.
C14_ThrowingListenerIsolated ==
    [][(last'.ret = "throws" /\ log' # <<>>)
       => /\ \A l \in Range(listeners) :
                Told(l, log'[Len(log')].kind, log'[Len(log')].subject) \in Range(log')
          /\ last'.op = "updatePlayerLocation" =>
                \E p \in Players :
                    \A l \in Range(listeners) : Told(l, "playerMoved", p) \in Range(log')
          /\ last'.op = "addPlayer" =>
                \A p \in Players : pc[p] = "awaiting" => pc'[p] \in {"awaiting", "joined"}]_vars


\* C15: no two areas of the list have the same label: an area joins the list
\* only in a call answered true and only under a label no area of the list
\* had, and a call answered false leaves the list as it was.
C15_OneAreaPerLabel ==
    [][/\ \A i, j \in 1..Len(conversationAreas') :
             conversationAreas'[i].label = conversationAreas'[j].label => i = j
       /\ Len(conversationAreas') > Len(conversationAreas) =>
             /\ last' = Last("addConversationArea", "true")
             /\ ~hasLabel(conversationAreas,
                          conversationAreas'[Len(conversationAreas')].label)
       /\ last' = Last("addConversationArea", "false") =>
             conversationAreas' = conversationAreas]_vars

\* every label is in use, and a further candidate was answered false
C15_Witness ==
    /\ last = Last("addConversationArea", "false")
    /\ {conversationAreas[i].label : i \in 1..Len(conversationAreas)} = Labels


\* C16: the player list and the session list correspond one to one: each
\* player of the list has exactly one session and each session's player is in
\* the list; a player whose session was destroyed is in neither list and its
\* token is not found, while the token of every player of the list resolves to
\* that player's session.
C16_SessionsMatchPlayers ==
    /\ Len(sessions) = Len(players)
    /\ \A p \in Players :
          /\ Count(players, p) <= 1
          /\ Cardinality({i \in 1..Len(sessions) : sessions[i].player = p})
                = Count(players, p)
          /\ pc[p] = "destroyed" =>
                /\ Count(players, p) = 0
                /\ getSessionByToken(p) = NotFound
          /\ Count(players, p) = 1 =>
                /\ getSessionByToken(p) # NotFound
                /\ getSessionByToken(p).player = p

\* one session was just destroyed while another player is still in the town
C16_Witness ==
    /\ last.op = "destroySession"
    /\ \E p, q \in Players :
          /\ pc[p] = "destroyed"
          /\ getSessionByToken(p) = NotFound
          /\ pc[q] = "joined"
          /\ getSessionByToken(q) # NotFound
          /\ getSessionByToken(q).player = q

\* C17: updatePlayerLocation adds no area to the list and removes none: the
\* labels, topics and bounding boxes of the list are the same after the call
\* as before, also when the move empties the area the player leaves.
C17_MoveKeepsAreaList ==
    [][last'.op = "updatePlayerLocation"
       => /\ Len(conversationAreas') = Len(conversationAreas)
          /\ \A i \in 1..Len(conversationAreas) :
                /\ conversationAreas'[i].label = conversationAreas[i].label
                /\ conversationAreas'[i].topic = conversationAreas[i].topic
                /\ conversationAreas'[i].boundingBox = conversationAreas[i].boundingBox]_vars

\* the move just made took a player out of an area that now has no occupant
C17_Witness ==
    /\ last = Last("updatePlayerLocation", "void")
    /\ \E p \in Players : \E i \in 1..Len(conversationAreas) :
          /\ conversationAreas[i].occupantsByID = <<>>
          /\ location[p].conversationLabel # conversationAreas[i].label
          /\ \E l \in Range(listeners) :
                Received(l) = <<Told(l, "conversationAreaUpdated", conversationAreas[i].label),
                                Told(l, "playerMoved", p)>>


\* C18: destroySession and updatePlayerLocation take out of an area's occupants
\* only the id of the player they act on: the id of every other joined player
\* that was among the occupants of an area is still among them afterwards.
C18_OnlyOwnIdRemoved ==
    [][last'.op \in {"destroySession", "updatePlayerLocation"}
       => \A i \in 1..Len(conversationAreas) : \A q \in Players :
             (/\ pc[q] = "joined"
              /\ q \in Range(conversationAreas[i].occupantsByID)
              /\ q \notin Range(conversationAreas'[i].occupantsByID))
             => \/ pc[q] = "joined" /\ pc'[q] = "destroyed"
                \/ location'[q] # location[q]]_vars

\* no area has more than one occupant, and an area the player occupies is the
\* player's active area and has the player standing inside it
PlacedWherePlayerStands(p) ==
    \A i \in 1..Len(conversationAreas) :
        /\ Len(conversationAreas[i].occupantsByID) <= 1
        /\ p \in Range(conversationAreas[i].occupantsByID) =>
              /\ activeConversationArea[p] = conversationAreas[i].label
              /\ isPlayerInConversationArea(
                     location[p],
                     getConversationAreaCoordinates(conversationAreas[i].boundingBox))

\* C19: once destroySession has removed a player, the player's id is among the
\* occupants of no area, also when the player stood inside the area it
\* occupied without having the area's label.
C19_DestroyedPlayerInNoArea ==
    [][\A p \in Players :
          (pc[p] = "joined" /\ pc'[p] = "destroyed" /\ PlacedWherePlayerStands(p)) =>
              \A i \in 1..Len(conversationAreas') :
                  p \notin Range(conversationAreas'[i].occupantsByID)]_vars

\* C20: once updatePlayerLocation has changed a player's label to the label of
\* an area of the list, the player's id is among the occupants of that area
\* and of no other area, also when the player stood inside an area it occupied
\* without having that area's label.
C20_MovedPlayerInOneArea ==
    [][\A p \in Players :
          (/\ last'.op = "updatePlayerLocation"
           /\ location'[p].conversationLabel # location[p].conversationLabel
           /\ hasLabel(conversationAreas, location'[p].conversationLabel)
           /\ PlacedWherePlayerStands(p))
          => \A i \in 1..Len(conversationAreas') :
                p \in Range(conversationAreas'[i].occupantsByID)
                    <=> conversationAreas'[i].label = location'[p].conversationLabel]_vars

====
